---- MODULE Spec2Model ----
(***************************************************************************)
(* Model of compman's update orchestrator (internal/compose/updater.go):   *)
(* the three batch entry points UpdateImages, UpdateImagesWithProgress and *)
(* UpdateImagesWithMultiProgress, the per-file functions they call, and    *)
(* the docker-compose subprocesses those functions start and wait for.     *)
(*                                                                         *)
(* Go strings that end up in result records are sequences of pieces, so    *)
(* that concatenation (fmt.Sprintf, +) is \o and the empty string is <<>>. *)
(* A subprocess output is the set of the searched-for substrings it        *)
(* contains: strings.Contains(out, w) is w \in out.                        *)
(***************************************************************************)
EXTENDS Integers, Sequences, FiniteSets, TLC

\* ------------------------------------------------------------------ bounds
MaxFiles == 3       \* longest list of compose files submitted to a batch
MaxTokens == 2      \* most searched-for substrings one output contains

\* ------------------------------------------------------------ Go strings
Str(s) == IF s = "" THEN << >> ELSE << s >>

\* filepath.Base / filepath.Dir over a path given as its list of elements
Base(p) == IF Len(p) = 0 THEN "." ELSE p[Len(p)]
Dir(p) == IF Len(p) <= 1 THEN << >> ELSE SubSeq(p, 1, Len(p) - 1)

\* strings.Contains(output, w)
Contains(out, w) == w \in out

\* --------------------------------------------------------- compose files
\* types.Service: only the Image field is read by the updater; "" is a
\* build-only service.
Svc(n, img) == [name |-> n, Image |-> img]

\* types.ComposeFile values the batch is run on.
WebWorker ==
  [FilePath |-> << "srv", "app", "docker-compose.yml" >>,
   Services |-> {Svc("web", "nginx:1.25"), Svc("worker", "")}]
GoneFile ==
  [FilePath |-> << "srv", "gone", "compose.prod.yml" >>,
   Services |-> {Svc("web", "nginx:1.25")}]
NoServices ==
  [FilePath |-> << "srv", "empty", "docker-compose.yaml" >>,
   Services |-> {}]

ComposeFiles == {WebWorker, GoneFile, NoServices}

\* The files present on disk; os.Stat + os.IsNotExist.
Disk == {WebWorker.FilePath, NoServices.FilePath}
IsNotExistNever(p) == FALSE
IsNotExist(p) == p \notin Disk

\* All lists of length 0..n over S.
SeqsUpTo(S, n) == UNION {[1..k -> S] : k \in 0..n}

\* The orders in which `for name, svc := range cf.Services` may visit the
\* services: Go leaves map iteration order unspecified.
Orders(S) ==
  {o \in [1..Cardinality(S) -> S] : \A x \in S : \E k \in DOMAIN o : o[k] = x}

\* The substrings the updater searches the output of a pull and of an
\* `up -d` for (a service name is searched for only when the service has an
\* image).
PullTokens == {"ERROR", "failed", "Pulling", "Downloaded", "web"}
UpTokens == {"ERROR", "failed", "Starting", "Recreating", "web"}
Outputs(tokens) == {o \in SUBSET tokens : Cardinality(o) <= MaxTokens}

\* Command line of a compose operation: the -f flag is dropped for the
\* conventional file names.
ComposeArgs(fileName, op) ==
  IF fileName = "docker-compose.yml" \/ fileName = "docker-compose.yaml"
  THEN << "docker-compose" >> \o op
  ELSE << "docker-compose", "-f", fileName >> \o op

\* ------------------------------------------------------------ subprocess
\* Phase deadlines in minutes (context.WithTimeout); 0 = no deadline.
PullTimeoutMinutes == 10
UpTimeoutMinutes == 5

\* error returned by cmd.Wait / cmd.CombinedOutput for a way of ending:
\*   "exit0"   the process exited with status 0
\*   "exitN"   the process exited with a non-zero status
\*   "killed"  the context deadline expired and os/exec killed the process;
\*             Wait reports the process state (*exec.ExitError, "signal:
\*             killed"), the context's error is not consulted
\*   "nostart" the process could not be started
WaitErr(how) ==
  CASE how = "exit0" -> "nil"
    [] how = "exitN" -> "ExitError"
    [] how = "killed" -> "ExitError"
    [] how = "nostart" -> "StartError"

\* --------------------------------------------------------- result records
\* types.UpdateResult. Service, OldImage, NewImage, Success and Error are the
\* Go fields (UpdatedAt is not modelled); file, phase and exitZero are
\* history fields: the index of the file the record was emitted for, the
\* code that emitted it, and whether the subprocess(es) it reports on exited
\* with status 0.
Result(svc, old, new, ok, err, i, phase, exitZero) ==
  [Service |-> svc, OldImage |-> old, NewImage |-> new, Success |-> ok,
   Error |-> err, file |-> i, phase |-> phase, exitZero |-> exitZero]

\* The services a result loop keeps: `if service.Image == "" { continue }`.
WithImageAll(ord) == ord
WithImage(ord) == SelectSeq(ord, LAMBDA s : s.Image # "")

\* The synthetic record of a file whose per-file function returned an error.
FileFailure(cf, i, err) ==
  Result(<< "file: " >> \o Str(Base(cf.FilePath)), << "N/A" >>, << "N/A" >>,
         FALSE, err, i, "file", FALSE)

\* Dry-run loop: one record for every key of cf.Services.
DryRunResults(ord, i) ==
  [k \in 1..Len(ord) |->
     Result(Str(ord[k].name), << "simulated - current image" >>,
            << "simulated - latest image" >>, TRUE, "nil", i, "dryrun",
            FALSE)]

\* Result loop of the pull phase (progress and multi-progress paths).
PullResults(ord, i, err, how) ==
  LET sel == WithImage(ord) IN
  [k \in 1..Len(sel) |->
     Result(Str(sel[k].name), Str(sel[k].Image),
            IF err = "nil" THEN Str(sel[k].Image) \o << " (pulled)" >>
                           ELSE Str(sel[k].Image),
            err = "nil", err, i, "pull", how = "exit0")]

\* Result loop of the recreate phase (progress and multi-progress paths).
UpResults(ord, i, err, out, how) ==
  LET sel == WithImage(ord) IN
  [k \in 1..Len(sel) |->
     Result(Str(sel[k].name), Str(sel[k].Image),
            IF Contains(out, sel[k].name)
               /\ (Contains(out, "Starting") \/ Contains(out, "Recreating"))
            THEN Str(sel[k].Image) \o << " (restarted)" >>
            ELSE Str(sel[k].Image),
            err = "nil", err, i, "up", how = "exit0")]

\* Result loop of updateComposeFileSimple, reached when both subprocesses
\* exited with status 0.
SimpleResults(ord, i, pullOut, upOut) ==
  LET sel == WithImage(ord)
      hasError == \/ Contains(pullOut, "ERROR") \/ Contains(upOut, "ERROR")
                  \/ Contains(pullOut, "failed") \/ Contains(upOut, "failed")
      serviceUpdated(n) ==
        /\ Contains(pullOut, n)
        /\ (Contains(pullOut, "Pulling") \/ Contains(pullOut, "Downloaded"))
  IN
  [k \in 1..Len(sel) |->
     Result(Str(sel[k].name), Str(sel[k].Image),
            IF ~hasError /\ serviceUpdated(sel[k].name)
            THEN Str(sel[k].Image) \o << " (updated)" >>
            ELSE Str(sel[k].Image),
            ~hasError, IF hasError THEN "LogError" ELSE "nil", i, "simple",
            TRUE)]

\* ------------------------------------------------------------------ state
VARIABLES
  entry,       \* the batch entry point that was called
  dryRun,      \* u.config.DryRun
  files,       \* composeFiles, the list submitted
  idx,         \* 1-based position of the range loop over composeFiles
  pc,          \* "loop", "pull" (waiting for pull), "up" (waiting for up -d),
               \* "done" (the entry point has returned)
  allResults,  \* the entry point's allResults slice
  retErr,      \* the error the entry point returned ("pending" before)
  proc,        \* the compose subprocess currently running, if any
  held,        \* locals of the per-file function kept across the up phase
  phases,      \* history: the subprocess invocations so far, in order, of
               \* the file being processed
  started,     \* history: the (file, operation) pairs a subprocess start
               \* was attempted for
  pruned,      \* runUpdate's post-batch image prune: "none" before it,
               \* "done" after
  pb,          \* a ui.ProgressBar: total, current, and the build it runs on
  v1,          \* a call of the earlier UpdateImagesWithProgress: list
               \* length, loop index, records so far, position, error
  strat,       \* a SemverStrategy: its pattern and constraint fields
  last,        \* the last strategy operation applied, with its arguments
               \* and what it returned
  mon,         \* one pull phase of the progress path with its two output
               \* readers and the shared progress display
  client,      \* a docker.Client and the daemon calls it has issued
  conf         \* package config: its global, the files, the last call

updaterVars ==
  << entry, dryRun, files, idx, pc, allResults, retErr, proc, held, phases,
     started, pruned >>
barVars == << pb, v1 >>
semverVars == << strat, last >>
extraVars == << mon, client, conf >>
vars == << updaterVars, barVars, semverVars, extraVars >>

Entries ==
  {"UpdateImages", "UpdateImagesWithProgress",
   "UpdateImagesWithMultiProgress"}

NoProc == [op |-> "none", file |-> 0, deadline |-> 0]
NoHeld == [pullResults |-> << >>, pullOutput |-> {}]

\* Deadline of a phase on an entry path, in minutes; 0 when the command is
\* built with exec.Command and no context.
Deadline(e, op) ==
  IF e = "UpdateImages" THEN 0
  ELSE IF op = "pull" THEN PullTimeoutMinutes ELSE UpTimeoutMinutes

LogStart(log, i, op) ==
  Append(log, [file |-> i, op |-> op, how |-> "running",
               dir |-> Dir(files[i].FilePath),
               args |-> ComposeArgs(Base(files[i].FilePath),
                                    IF op = "pull" THEN << "pull" >>
                                                   ELSE << "up", "-d" >>)])
LogEndStillRunning(log, how) == log
LogEnd(log, how) == [log EXCEPT ![Len(log)].how = how]

\* No progress bar and no earlier-variant call exist.
BarIdle ==
  /\ pb = [total |-> 0, current |-> 0, arch |-> "none"]
  /\ v1 = [n |-> 0, i |-> 0, results |-> 0, pc |-> "idle", ret |-> "pending"]

\* No strategy exists.
SemverIdle ==
  /\ strat = [pattern |-> << >>, constraint |-> << >>]
  /\ last = [op |-> "none"]

\* No pull phase is being monitored, no Docker client exists, package
\* config has not been used.
ExtraIdle ==
  /\ mon = [pc |-> "idle"]
  /\ client = [pc |-> "idle"]
  /\ conf = [pc |-> "idle"]

Init ==
  /\ entry \in Entries
  /\ dryRun \in BOOLEAN
  /\ files \in SeqsUpTo(ComposeFiles, MaxFiles)
  /\ idx = 1
  /\ pc = "loop"
  /\ allResults = << >>
  /\ retErr = "pending"
  /\ proc = NoProc
  /\ held = NoHeld
  /\ phases = << >>
  /\ started = {}
  /\ pruned = "none"
  /\ BarIdle
  /\ SemverIdle
  /\ ExtraIdle

\* What the range loop does after the per-file function returned err: both
\* branches go on with the next file, nothing is returned early.
LoopControlAbort(err) ==
  IF err # "nil" THEN [pc |-> "done", retErr |-> err]
                 ELSE [pc |-> "loop", retErr |-> retErr]
LoopControl(err) == [pc |-> "loop", retErr |-> retErr]

\* Body of the range loop after the per-file function returned (group, err).
FinishFilePrepend(group, err) ==
  LET c == LoopControl(err) IN
  /\ allResults' = IF err # "nil"
                   THEN << FileFailure(files[idx], idx, err) >> \o allResults
                   ELSE group \o allResults
  /\ idx' = idx + 1
  /\ pc' = c.pc
  /\ retErr' = c.retErr
  /\ proc' = NoProc
  /\ held' = NoHeld
  /\ phases' = << >>
FinishFile(group, err) ==
  LET c == LoopControl(err) IN
  /\ allResults' = IF err # "nil"
                   THEN Append(allResults, FileFailure(files[idx], idx, err))
                   ELSE allResults \o group
  /\ idx' = idx + 1
  /\ pc' = c.pc
  /\ retErr' = c.retErr
  /\ proc' = NoProc
  /\ held' = NoHeld
  /\ phases' = << >>

\* The recreate phase has ended the way `how` (or could not start).
UpDone(pullRes, pullOut, how, out, ord) ==
  LET err == WaitErr(how) IN
  IF entry = "UpdateImages"
  THEN IF err # "nil"
       THEN FinishFile(<< >>, "UpFailed")
       ELSE FinishFile(SimpleResults(ord, idx, pullOut, out), "nil")
  ELSE FinishFile(pullRes \o UpResults(ord, idx, err, out, how), "nil")

\* Start `up -d` for the current file.
BeginUp(pullRes, pullOut, log) ==
  /\ started' = started \cup {<< idx, "pull" >>, << idx, "up" >>}
  /\ \E ok \in BOOLEAN :
       IF ok
       THEN /\ proc' = [op |-> "up", file |-> idx,
                        deadline |-> Deadline(entry, "up")]
            /\ pc' = "up"
            /\ held' = [pullResults |-> pullRes, pullOutput |-> pullOut]
            /\ phases' = LogStart(log, idx, "up")
            /\ UNCHANGED << idx, allResults, retErr >>
       ELSE \E ord \in Orders(files[idx].Services) :
              UpDone(pullRes, pullOut, "nostart", {}, ord)

\* What each per-file function does once its pull has ended with error err:
\* TRUE when it returns the error instead of going on to `up -d`.
PullAborts(e, how, err) ==
  \/ e = "UpdateImages" /\ err # "nil"
  \/ e = "UpdateImagesWithProgress" /\ how = "nostart"

\* The pull phase has ended the way `how` (or could not start).
PullDone(how, out, ord, log) ==
  LET err == WaitErr(how) IN
  IF PullAborts(entry, how, err)
  THEN /\ FinishFile(<< >>, "PullFailed")
       /\ started' = started \cup {<< idx, "pull" >>}
  ELSE IF entry = "UpdateImages"
       THEN BeginUp(<< >>, out, log)
       ELSE BeginUp(PullResults(ord, idx, err, how), {}, log)

\* ---------------------------------------------------------------- actions
\* os.Stat says the file does not exist: the per-file function returns an
\* error before anything else.
ValidateMissing ==
  /\ pc = "loop" /\ idx <= Len(files)
  /\ IsNotExist(files[idx].FilePath)
  /\ FinishFile(<< >>, "NotExist")
  /\ UNCHANGED << pruned, entry, dryRun, files, started >>
  /\ UNCHANGED << barVars, semverVars, extraVars >>

\* Dry-run branch of the per-file function.
DryRunFile ==
  /\ pc = "loop" /\ idx <= Len(files)
  /\ ~IsNotExist(files[idx].FilePath)
  /\ dryRun
  /\ \E ord \in Orders(files[idx].Services) :
       FinishFile(DryRunResults(ord, idx), "nil")
  /\ UNCHANGED << pruned, entry, dryRun, files, started >>
  /\ UNCHANGED << barVars, semverVars, extraVars >>

\* Real run: build and start `docker-compose pull`.
StartPull ==
  /\ pc = "loop" /\ idx <= Len(files)
  /\ ~IsNotExist(files[idx].FilePath)
  /\ ~dryRun
  /\ \E ok \in BOOLEAN :
       IF ok
       THEN /\ proc' = [op |-> "pull", file |-> idx,
                        deadline |-> Deadline(entry, "pull")]
            /\ pc' = "pull"
            /\ phases' = LogStart(<< >>, idx, "pull")
            /\ started' = started \cup {<< idx, "pull" >>}
            /\ UNCHANGED << idx, allResults, retErr, held >>
       ELSE \E ord \in Orders(files[idx].Services) :
              PullDone("nostart", {}, ord,
                       LogEnd(LogStart(<< >>, idx, "pull"), "nostart"))
  /\ UNCHANGED << pruned, entry, dryRun, files >>
  /\ UNCHANGED << barVars, semverVars, extraVars >>

\* The pull outputs the code can tell apart: only updateComposeFileSimple
\* keeps what CombinedOutput returns; the progress path hands the pipes to
\* the monitor and the multi-progress path discards the output (`_, err :=`).
PullOutputs(e) == IF e = "UpdateImages" THEN Outputs(PullTokens) ELSE {{}}

\* The pull subprocess exits by itself; Wait / CombinedOutput returns.
PullExit ==
  /\ pc = "pull"
  /\ \E how \in {"exit0", "exitN"}, out \in PullOutputs(entry),
        ord \in Orders(files[idx].Services) :
       PullDone(how, out, ord, LogEnd(phases, how))
  /\ UNCHANGED << pruned, entry, dryRun, files >>
  /\ UNCHANGED << barVars, semverVars, extraVars >>

\* The pull deadline expires: os/exec kills the subprocess, Wait returns.
PullTimeout ==
  /\ pc = "pull"
  /\ proc.deadline > 0
  /\ \E out \in PullOutputs(entry), ord \in Orders(files[idx].Services) :
       PullDone("killed", out, ord, LogEnd(phases, "killed"))
  /\ UNCHANGED << pruned, entry, dryRun, files >>
  /\ UNCHANGED << barVars, semverVars, extraVars >>

\* The `up -d` outputs the code can tell apart: updateComposeFileSimple
\* searches the output for ERROR and failed only, the progress and
\* multi-progress paths for the service name, Starting and Recreating only.
UpOutputs(e) ==
  IF e = "UpdateImages" THEN Outputs(UpTokens \cap {"ERROR", "failed"})
                        ELSE Outputs(UpTokens \ {"ERROR", "failed"})

\* The up subprocess exits by itself; CombinedOutput returns.
UpExit ==
  /\ pc = "up"
  /\ \E how \in {"exit0", "exitN"}, out \in UpOutputs(entry),
        ord \in Orders(files[idx].Services) :
       UpDone(held.pullResults, held.pullOutput, how, out, ord)
  /\ UNCHANGED << pruned, entry, dryRun, files, started >>
  /\ UNCHANGED << barVars, semverVars, extraVars >>

\* The up deadline expires: the subprocess is killed, CombinedOutput returns.
UpTimeout ==
  /\ pc = "up"
  /\ proc.deadline > 0
  /\ \E out \in UpOutputs(entry), ord \in Orders(files[idx].Services) :
       UpDone(held.pullResults, held.pullOutput, "killed", out, ord)
  /\ UNCHANGED << pruned, entry, dryRun, files, started >>
  /\ UNCHANGED << barVars, semverVars, extraVars >>

\* After the last file: `return allResults, nil`.
Return ==
  /\ pc = "loop" /\ idx > Len(files)
  /\ pc' = "done"
  /\ retErr' = "nil"
  /\ UNCHANGED << entry, dryRun, files, idx, allResults, proc, held, phases,
                  started, pruned >>
  /\ UNCHANGED << barVars, semverVars, extraVars >>

\* runUpdate prunes unused images after the batch unless this is a dry run.
ShouldPruneAlways(d) == TRUE
ShouldPrune(d) == ~d

\* runUpdate, after UpdateImagesWithProgress returned a nil error for the
\* non-empty list it submitted: docker.NewClient().CleanupUnusedImages();
\* whether it fails changes only the line printed.
Prune ==
  /\ entry = "UpdateImagesWithProgress"
  /\ Len(files) > 0
  /\ pc = "done" /\ retErr = "nil"
  /\ pruned = "none"
  /\ ShouldPrune(dryRun)
  /\ pruned' = "done"
  /\ UNCHANGED << entry, dryRun, files, idx, pc, allResults, retErr, proc,
                  held, phases, started >>
  /\ UNCHANGED << barVars, semverVars, extraVars >>

Next ==
  \/ ValidateMissing
  \/ DryRunFile
  \/ StartPull
  \/ PullExit
  \/ PullTimeout
  \/ UpExit
  \/ UpTimeout
  \/ Return
  \/ Prune

Spec == Init /\ [][Next]_vars

\* The orchestrator's own steps always run, and a deadline that is armed
\* expires; nothing makes a subprocess exit by itself.
FairSpec ==
  /\ Spec
  /\ WF_vars(ValidateMissing)
  /\ WF_vars(DryRunFile)
  /\ WF_vars(StartPull)
  /\ WF_vars(PullTimeout)
  /\ WF_vars(UpTimeout)
  /\ WF_vars(Return)

\* ------------------------------------------------------- shared notions
\* The records of file i in the result list, in order.
Group(i) == SelectSeq(allResults, LAMBDA r : r.file = i)

\* Number of records of file i whose Service is the service name n.
CountFor(i, n) == Len(SelectSeq(Group(i), LAMBDA r : r.Service = << n >>))

OnDisk(i) == files[i].FilePath \in Disk
ImageBearing(i) == {sv \in files[i].Services : sv.Image # ""}
IsFileLevel(g) == Len(g) = 1 /\ g[1].phase = "file"
Returned == pc = "done"

\* ---------------------------------------------------------------------- C1
\* C1: on every entry point a failure of one file (missing file, failed
\* pull, failed recreate) never aborts the batch: the entry point returns
\* only after the turn of every file has come, every file has then been
\* handled (a missing file has its failure record, an existing file of a real
\* run had its pull attempted), and the error returned is nil.
C1_BatchNeverAborts ==
  /\ Returned =>
       /\ retErr = "nil"
       /\ idx = Len(files) + 1
       /\ \A i \in 1..Len(files) :
            IF OnDisk(i) THEN dryRun \/ << i, "pull" >> \in started
                         ELSE Len(Group(i)) = 1
  /\ ~Returned => retErr = "pending"

\* A batch that returned although an earlier file failed and a later file
\* was pulled after that failure.
C1_Witness ==
  /\ Returned
  /\ \E i, j \in 1..Len(files) :
       /\ i < j
       /\ \E k \in 1..Len(Group(i)) : ~Group(i)[k].Success
       /\ << j, "pull" >> \in started

\* ---------------------------------------------------------------------- C2
\* C2: every file submitted yields at least one result record in the list
\* the batch returns, whatever its services and whether or not dry-run is on.
C2_EveryFileHasARecord ==
  Returned => \A i \in 1..Len(files) : Len(Group(i)) >= 1

\* ---------------------------------------------------------------------- C3
\* C3: when the pull of a file fails (non-zero exit or timeout), `up -d` is
\* never invoked for that file.
C3_FailedPullSkipsUp ==
  \A k \in 1..Len(phases) :
    (phases[k].op = "pull" /\ phases[k].how \in {"exitN", "killed"})
      => \A l \in 1..Len(phases) : phases[l].op # "up"

\* ---------------------------------------------------------------------- C4
\* C4: a file that is not on disk when its turn comes contributes exactly one
\* record (Service = file label with the base name, both images "N/A",
\* Success false, Error set), and no subprocess is started for it.
C4_MissingFileOneFailure ==
  /\ \A i \in 1..(idx - 1) :
       files[i].FilePath \notin Disk =>
         /\ Len(Group(i)) = 1
         /\ Group(i)[1].Service =
              << "file: ", files[i].FilePath[Len(files[i].FilePath)] >>
         /\ Group(i)[1].OldImage = << "N/A" >>
         /\ Group(i)[1].NewImage = << "N/A" >>
         /\ Group(i)[1].Success = FALSE
         /\ Group(i)[1].Error # "nil"
  /\ \A e \in started : files[e[1]].FilePath \in Disk
  /\ proc.op # "none" => files[proc.file].FilePath \in Disk
  /\ \A k \in 1..Len(phases) : files[phases[k].file].FilePath \in Disk

\* A real run in which the turn of a missing file has passed while other
\* files did start subprocesses.
C4_Witness ==
  /\ ~dryRun
  /\ started # {}
  /\ \E i \in 1..(idx - 1) : files[i].FilePath \notin Disk

\* ---------------------------------------------------------------------- C5
\* C5: in dry-run mode an existing file yields exactly one simulated
\* successful record for each service with a non-empty image and no record
\* for a service without an image.
C5_DryRunSkipsBuildOnly ==
  dryRun =>
    \A i \in 1..(idx - 1) :
      OnDisk(i) =>
        /\ \A sv \in files[i].Services :
             CountFor(i, sv.name) = IF sv.Image # "" THEN 1 ELSE 0
        /\ \A k \in 1..Len(Group(i)) :
             Group(i)[k].Success /\ Group(i)[k].phase = "dryrun"

PerPhaseGroup(i, g, n) ==
  /\ Len(g) = n * Cardinality(ImageBearing(i))
  /\ \A k \in 1..Len(g) : g[k].phase # "file"
  /\ \A sv \in ImageBearing(i) :
       /\ CountFor(i, sv.name) = n
       /\ n = 2 =>
            \A ph \in {"pull", "up"} :
              \E k \in 1..Len(g) :
                g[k].Service = << sv.name >> /\ g[k].phase = ph

C7_SuccessIsExitStatus ==
  \A r \in {allResults[k] : k \in 1..Len(allResults)}
           \cup {held.pullResults[k] : k \in 1..Len(held.pullResults)} :
    r.phase \in {"pull", "up", "simple"} =>
      /\ r.Success = r.exitZero
      /\ (r.Error = "nil") = r.exitZero

\* ---------------------------------------------------------------------- C8
\* C8: no record has an empty Service, OldImage or NewImage, and no service
\* whose image is empty ever has a record, in any mode and on any path.
C8_NoRecordForEmptyImage ==
  \A k \in 1..Len(allResults) :
    LET r == allResults[k] IN
    /\ r.Service # << >> /\ r.OldImage # << >> /\ r.NewImage # << >>
    /\ r.phase # "file" =>
         \E sv \in files[r.file].Services :
           r.Service = << sv.name >> /\ sv.Image # ""

\* ---------------------------------------------------------------------- C9
\* C9: every batch eventually returns, even when a compose subprocess never
\* exits by itself (each phase being cut off by its deadline).
C9_BatchReturns == <>Returned

\* --------------------------------------------------------------------- C10
\* C10: when a phase's subprocess exceeds its deadline, the subprocess is no
\* longer running once the phase has returned, the phase's records are
\* failures, and their error is of a timeout kind, not the error of an
\* ordinary non-zero exit.
C10_TimeoutKindError ==
  \A k \in 1..Len(phases) :
    phases[k].how = "killed" =>
      /\ proc.op # phases[k].op
      /\ phases[k].op = "pull" =>
           \A l \in 1..Len(held.pullResults) :
             /\ ~held.pullResults[l].Success
             /\ held.pullResults[l].Error \notin {"nil", WaitErr("exitN")}

\* --------------------------------------------------------------------- C11
\* The invocations of the file in flight whose subprocess is alive.
RunningPhases == {k \in 1..Len(phases) : phases[k].how = "running"}

C12_BlocksInFileOrder ==
  \A k \in 1..(Len(allResults) - 1) :
    allResults[k].file <= allResults[k + 1].file

\* A returned list holding a block of several records followed by the block
\* of a later file.
C12_Witness ==
  /\ Returned
  /\ \E i, j \in 1..Len(files) :
       i < j /\ Len(Group(i)) >= 2 /\ Len(Group(j)) >= 1

\* --------------------------------------------------------------------- C13
\* C13: a dry run performs no external action: no compose subprocess is ever
\* started and the post-batch image prune is not triggered; the prune happens
\* only in a real run, after the whole batch has returned.
C13_DryRunNoExternalAction ==
  /\ dryRun =>
       /\ started = {}
       /\ proc.op = "none"
       /\ phases = << >>
       /\ pruned = "none"
  /\ pruned # "none" =>
       /\ ~dryRun
       /\ pc = "done"
       /\ idx > Len(files)

\* A dry run of image-bearing files, submitted the way runUpdate does it, has
\* returned its records.
C13_Witness ==
  /\ dryRun /\ Returned
  /\ entry = "UpdateImagesWithProgress"
  /\ \E i \in 1..Len(files) : ImageBearing(i) # {} /\ Len(Group(i)) > 0

\* ===========================================================================
\* ui.ProgressBar and the earlier UpdateImagesWithProgress, which renders the
\* bar once per file and once more after the loop.
\* ===========================================================================

MaxTotal == 3
MaxGroup == 2

\* The orchestrator of the later variant has not been called.
UpdaterIdle ==
  /\ entry = "UpdateImages"
  /\ dryRun = FALSE
  /\ files = << >>
  /\ idx = 1
  /\ pc = "idle"
  /\ allResults = << >>
  /\ retErr = "pending"
  /\ proc = NoProc
  /\ held = NoHeld
  /\ phases = << >>
  /\ started = {}
  /\ pruned = "none"

\* NewProgressBar's width, the byte length of the bar glyphs, and the largest
\* int (the model keeps 31 bits of it; only its sign and size matter here).
Width == 50
GlyphBytes == 3
MaxInt == 2147483647
MinInt == -MaxInt - 1

\* The builds the release targets: int(x) of a float that is not finite is
\* implementation-dependent in Go; amd64 yields the most negative int for
\* both NaN and +Inf, arm64 yields 0 for NaN and the largest int for +Inf.
Archs == {"amd64", "arm64"}
IntOfNonFinite(arch, kind) ==
  IF arch = "amd64" THEN MinInt
  ELSE IF kind = "nan" THEN 0 ELSE MaxInt

\* render: filled := int(float64(current) / float64(total) * float64(width)).
Filled(bar) ==
  IF bar.total = 0
  THEN IntOfNonFinite(bar.arch, IF bar.current = 0 THEN "nan" ELSE "inf")
  ELSE (bar.current * Width) \div bar.total

\* strings.Repeat panics on a negative count and on a result too long for an
\* int.
RepeatPanics(len, count) ==
  \/ count < 0
  \/ count > 0 /\ len > MaxInt \div count

\* render: the two strings.Repeat calls, in order.
RenderPanics(bar) ==
  LET filled == Filled(bar) IN
  IF RepeatPanics(GlyphBytes, filled) THEN TRUE
  ELSE RepeatPanics(GlyphBytes, Width - filled)

\* Update / UpdateWithMessage: set current, then render.
Update(bar, current) == [bar EXCEPT !.current = current]

\* A caller built a bar with NewProgressBar(total, ...) and submits a list of
\* n files.
BarInit ==
  /\ pb \in [total : 0..MaxTotal, current : {0}, arch : Archs]
  /\ v1 \in [n : 0..MaxFiles, i : {0}, results : {0}, pc : {"loop"},
             ret : {"pending"}]
  /\ UpdaterIdle
  /\ SemverIdle
  /\ ExtraIdle

\* One iteration of the range loop: UpdateWithMessage(i, ...), then the
\* per-file function, which renders again with the same current and returns
\* either an error (one failure record) or a group of records.
V1Iterate ==
  /\ v1.pc = "loop" /\ v1.i < v1.n
  /\ pb' = Update(pb, v1.i)
  /\ IF RenderPanics(pb')
     THEN v1' = [v1 EXCEPT !.pc = "panic"]
     ELSE \E k \in 0..MaxGroup :
            v1' = [v1 EXCEPT !.i = v1.i + 1, !.results = v1.results + k]
  /\ UNCHANGED << updaterVars, semverVars, extraVars >>

\* After the loop: progressBar.Update(len(composeFiles)), then
\* return allResults, nil.
V1Final ==
  /\ v1.pc = "loop" /\ v1.i = v1.n
  /\ pb' = Update(pb, v1.n)
  /\ IF RenderPanics(pb')
     THEN v1' = [v1 EXCEPT !.pc = "panic"]
     ELSE v1' = [v1 EXCEPT !.pc = "done", !.ret = "nil"]
  /\ UNCHANGED << updaterVars, semverVars, extraVars >>

BarNext ==
  \/ V1Iterate
  \/ V1Final

BarSpec == BarInit /\ [][BarNext]_vars

\* --------------------------------------------------------------------- C14
\* C14: an empty list submitted to an entry point yields zero results and a
\* nil error without crashing, the progress-bar update with a total of zero
\* files included.
C14_EmptyListReturnsNothing ==
  v1.n = 0 =>
    /\ v1.pc # "panic"
    /\ v1.pc = "done" => v1.results = 0 /\ v1.ret = "nil"

\* ===========================================================================
\* strategy.SemverStrategy.  A Go string is a sequence of one-character
\* strings, so that prefixes, slices and byte order are computed.
\* ===========================================================================

\* The characters of the tags and patterns below, in byte order.
AsciiOrder ==
  << "*", "+", "-", ".", "0", "1", "2", "3", "4", "5", "6", "7", "8", "9",
     "=", ">", "A", "B", "C", "D", "E", "F", "G", "H", "I", "J", "K", "L",
     "M", "N", "O", "P", "Q", "R", "S", "T", "U", "V", "W", "X", "Y", "Z",
     "^", "a", "b", "c", "d", "e", "f", "g", "h", "i", "j", "k", "l", "m",
     "n", "o", "p", "q", "r", "s", "t", "u", "v", "w", "x", "y", "z", "~" >>
CodeTable ==
  [c \in {AsciiOrder[k] : k \in 1..Len(AsciiOrder)} |->
     CHOOSE k \in 1..Len(AsciiOrder) : AsciiOrder[k] = c]
Code(c) == CodeTable[c]
Digits == {"0", "1", "2", "3", "4", "5", "6", "7", "8", "9"}
UpperCase == {AsciiOrder[k] : k \in Code("A")..Code("Z")}
LowerCase == {AsciiOrder[k] : k \in Code("a")..Code("z")}

\* strings.ToLower.
ToLower(s) ==
  [k \in 1..Len(s) |->
     IF s[k] \in UpperCase
     THEN AsciiOrder[Code(s[k]) - Code("A") + Code("a")]
     ELSE s[k]]

\* strings.HasPrefix and the slice s[n:].
HasPrefix(s, prefix) ==
  Len(s) >= Len(prefix) /\ SubSeq(s, 1, Len(prefix)) = prefix
From(s, n) == SubSeq(s, n + 1, Len(s))

\* The byte-wise order of Go's ==, < on strings: -1, 0 or 1.
RECURSIVE StringCompare(_, _)
StringCompare(a, b) ==
  IF a = << >> /\ b = << >> THEN 0
  ELSE IF a = << >> THEN -1
  ELSE IF b = << >> THEN 1
  ELSE IF Code(Head(a)) < Code(Head(b)) THEN -1
  ELSE IF Code(Head(a)) > Code(Head(b)) THEN 1
  ELSE StringCompare(Tail(a), Tail(b))

\* cleanVersionTag: the first prefix of the list, in list order, that the
\* lower-cased tag starts with is cut off the tag.
Prefixes ==
  << << "v" >>,
     << "v", "e", "r", "s", "i", "o", "n" >>,
     << "v", "e", "r" >>,
     << "r", "e", "l", "e", "a", "s", "e" >>,
     << "r", "e", "l" >> >>
cleanVersionTag(tag) ==
  LET lowerTag == ToLower(tag)
      hits == {k \in 1..Len(Prefixes) : HasPrefix(lowerTag, Prefixes[k])}
  IN IF hits = {} THEN tag
     ELSE LET first == CHOOSE k \in hits : \A j \in hits : k <= j
          IN From(tag, Len(Prefixes[first]))

\* ---- github.com/Masterminds/semver/v3, as far as the strategy uses it ----

\* Position of the first occurrence of c in s, 0 if there is none.
IndexOf(s, c) ==
  IF \E k \in 1..Len(s) : s[k] = c
  THEN CHOOSE k \in 1..Len(s) : s[k] = c /\ \A j \in 1..(k - 1) : s[j] # c
  ELSE 0

\* strings.Split(s, ".").
RECURSIVE SplitDots(_)
SplitDots(s) ==
  LET d == IndexOf(s, ".") IN
  IF d = 0 THEN << s >>
  ELSE << SubSeq(s, 1, d - 1) >> \o SplitDots(From(s, d))

IsNumeric(s) == s # << >> /\ \A k \in 1..Len(s) : s[k] \in Digits
RECURSIVE ParseUint(_)
ParseUint(s) ==
  IF s = << >> THEN 0
  ELSE 10 * ParseUint(SubSeq(s, 1, Len(s) - 1))
       + (Code(s[Len(s)]) - Code("0"))

\* A dot-separated list of non-empty identifiers over [0-9A-Za-z-].
IsIdentifiers(s) ==
  \A part \in {SplitDots(s)[k] : k \in 1..Len(SplitDots(s))} :
    /\ part # << >>
    /\ \A k \in 1..Len(part) :
         part[k] \in Digits \cup UpperCase \cup LowerCase \cup {"-"}

NoVersion == [ok |-> FALSE]

\* semver.NewVersion: optional "v", one to three numeric segments, optional
\* "-prerelease", optional "+metadata"; missing segments are 0 and the
\* string given is kept as the version's original.
NewVersion(str) ==
  LET body == IF str # << >> /\ str[1] = "v" THEN Tail(str) ELSE str
      plus == IndexOf(body, "+")
      noMeta == IF plus = 0 THEN body ELSE SubSeq(body, 1, plus - 1)
      dash == IndexOf(noMeta, "-")
      core == IF dash = 0 THEN noMeta ELSE SubSeq(noMeta, 1, dash - 1)
      pre == IF dash = 0 THEN << >> ELSE From(noMeta, dash)
      segs == SplitDots(core)
      seg(k) == IF k <= Len(segs) THEN ParseUint(segs[k]) ELSE 0
  IN IF /\ Len(segs) <= 3
        /\ \A k \in 1..Len(segs) : IsNumeric(segs[k])
        /\ dash # 0 => IsIdentifiers(pre)
        /\ plus # 0 => IsIdentifiers(From(body, plus))
     THEN [ok |-> TRUE, major |-> seg(1), minor |-> seg(2), patch |-> seg(3),
           pre |-> pre, original |-> str]
     ELSE NoVersion

Sign(n) == IF n < 0 THEN -1 ELSE IF n > 0 THEN 1 ELSE 0

\* Precedence of two prerelease strings, identifier by identifier: numeric
\* identifiers by value and below the others, the others byte-wise, and a
\* proper prefix below the longer list.
RECURSIVE ComparePrerelease(_, _)
ComparePrerelease(a, b) ==
  IF a = << >> /\ b = << >> THEN 0
  ELSE IF a = << >> THEN -1
  ELSE IF b = << >> THEN 1
  ELSE LET x == Head(a)
           y == Head(b)
           c == IF IsNumeric(x) /\ IsNumeric(y)
                THEN Sign(ParseUint(x) - ParseUint(y))
                ELSE IF IsNumeric(x) THEN -1
                ELSE IF IsNumeric(y) THEN 1
                ELSE StringCompare(x, y)
       IN IF c # 0 THEN c ELSE ComparePrerelease(Tail(a), Tail(b))

\* Version.Compare: major, minor, patch, then the prerelease, where a
\* version without prerelease is above the same version with one.
Compare(v, o) ==
  IF v.major # o.major THEN Sign(v.major - o.major)
  ELSE IF v.minor # o.minor THEN Sign(v.minor - o.minor)
  ELSE IF v.patch # o.patch THEN Sign(v.patch - o.patch)
  ELSE IF v.pre = << >> /\ o.pre = << >> THEN 0
  ELSE IF v.pre = << >> THEN 1
  ELSE IF o.pre = << >> THEN -1
  ELSE ComparePrerelease(SplitDots(v.pre), SplitDots(o.pre))

\* The patterns handed to the strategy.
Star == << "*" >>
Patterns ==
  { << >>,
    Star,
    << "^", "1", ".", "0", ".", "0" >>,
    << "~", "1", ".", "2", ".", "0" >>,
    << ">", "=", "1", ".", "9", ".", "0" >>,
    << "b", "a", "d" >> }

NoConstraint == [ok |-> FALSE]

\* semver.NewConstraint for one comparison: "*", or an optional operator
\* ^, ~, >= followed by a version that gives all three segments; anything
\* else, the empty string included, is an error.
NewConstraint(pattern) ==
  LET op == IF pattern = Star THEN "*"
            ELSE IF HasPrefix(pattern, << "^" >>) THEN "^"
            ELSE IF HasPrefix(pattern, << "~" >>) THEN "~"
            ELSE IF HasPrefix(pattern, << ">", "=" >>) THEN ">="
            ELSE "="
      rest == IF op = "*" THEN << "0" >>
              ELSE IF op = "=" THEN pattern
              ELSE From(pattern, Len(op))
      con == NewVersion(rest)
  IN IF con.ok THEN [ok |-> TRUE, op |-> op, con |-> con] ELSE NoConstraint

\* Constraints.Check: a version with a prerelease is matched only by a
\* constraint whose own version has one; ^ keeps the leftmost non-zero
\* segment, ~ keeps major and minor.
Check(c, v) ==
  IF v.pre # << >> /\ c.con.pre = << >> THEN FALSE
  ELSE IF c.op = "*" THEN TRUE
  ELSE IF c.op = "=" THEN Compare(v, c.con) = 0
  ELSE IF c.op = ">=" THEN Compare(v, c.con) >= 0
  ELSE IF c.op = "~"
    THEN /\ Compare(v, c.con) >= 0
         /\ v.major = c.con.major /\ v.minor = c.con.minor
  ELSE /\ Compare(v, c.con) >= 0
       /\ v.major = c.con.major
       /\ c.con.major = 0 => v.minor = c.con.minor
       /\ c.con.major = 0 /\ c.con.minor = 0 => v.patch = c.con.patch

\* NewSemverStrategy: "" becomes "*"; a pattern that does not parse leaves the
\* pattern field as given and takes the constraint of "*".
NewSemverStrategy(pattern) ==
  LET p == IF pattern = << >> THEN Star ELSE pattern
      c == NewConstraint(p)
  IN [pattern |-> p,
      constraint |-> IF c.ok THEN c ELSE NewConstraint(Star)]

\* parseVersion: clean the tag, then semver.NewVersion of the cleaned tag.
parseVersion(tag) == NewVersion(cleanVersionTag(tag))

\* ValidateTag.
ValidateTag(s, tag) ==
  LET version == parseVersion(tag) IN
  IF ~version.ok THEN FALSE ELSE Check(s.constraint, version)

\* GetLatestTag on the tag list the registry returned (or its failure): the
\* possible returns.  sort.Sort puts a largest version last; which of several
\* equal versions comes last is not determined.  The string returned is the
\* Original() of that version.
GetLatestTag(s, registry) ==
  IF ~registry.ok THEN {[tag |-> << >>, err |-> "registry"]}
  ELSE
    LET validVersions ==
          {v \in {parseVersion(t) : t \in registry.tags} :
             v.ok /\ Check(s.constraint, v)}
        latest ==
          {v \in validVersions :
             \A o \in validVersions : Compare(o, v) <= 0}
    IN IF validVersions = {} THEN {[tag |-> << >>, err |-> "none"]}
       ELSE {[tag |-> v.original, err |-> "nil"] : v \in latest}

\* GetDescription: a fixed text followed by the pattern field.
GetDescription(s) == << "semver strategy, constraint: ", s.pattern >>

\* CompareVersions: the versions' precedence when both tags parse, the
\* byte order of the two tags as given otherwise.
CompareVersionsRawOnly(version1, version2) ==
  StringCompare(version1, version2)
CompareVersions(version1, version2) ==
  LET v1p == parseVersion(version1)
      v2p == parseVersion(version2)
  IN IF ~v1p.ok \/ ~v2p.ok THEN StringCompare(version1, version2)
     ELSE Compare(v1p, v2p)

\* SetConstraint: the strategy afterwards and the error returned.
SetConstraintKeepsPattern(s, pattern) ==
  LET c == NewConstraint(pattern) IN
  IF ~c.ok THEN [strat |-> [s EXCEPT !.pattern = pattern], err |-> "invalid"]
  ELSE [strat |-> [pattern |-> pattern, constraint |-> c], err |-> "nil"]
SetConstraint(s, pattern) ==
  LET c == NewConstraint(pattern) IN
  IF ~c.ok THEN [strat |-> s, err |-> "invalid"]
  ELSE [strat |-> [pattern |-> pattern, constraint |-> c], err |-> "nil"]

\* GetConstraint.
GetConstraint(s) == s.pattern

\* The tags a registry may list, and the larger set of tags handed to the
\* operations that take a tag.
MaxTags == 2
V100 == << "1", ".", "0", ".", "0" >>
V123 == << "1", ".", "2", ".", "3" >>
V200 == << "2", ".", "0", ".", "0" >>
RegistryTags ==
  { V100, V123, V200,
    << "l", "a", "t", "e", "s", "t" >>,
    << "v" >> \o V123,
    << "R", "e", "l", "e", "a", "s", "e", "2", ".", "0" >>,
    << "1", ".", "1", "0", ".", "0" >>,
    << "1", ".", "9", ".", "0" >>,
    V200 \o << "-", "b", "e", "t", "a" >> }
Tags ==
  RegistryTags \cup
    { << "v", "e", "r", "s", "i", "o", "n" >> \o V123,
      << "v", "v" >> \o V100,
      << "1", ".", "5", "x" >> }

\* What GetImageTags may hand back: an error, or up to MaxTags tags.
Registries ==
  {[ok |-> FALSE, tags |-> {}]} \cup
  {[ok |-> TRUE, tags |-> T] :
     T \in {X \in SUBSET RegistryTags : Cardinality(X) <= MaxTags}}

Call(op, a, b, ret) ==
  [op |-> op, recv |-> strat, a |-> a, b |-> b, ret |-> ret]

SemverInit ==
  /\ strat \in {NewSemverStrategy(p) : p \in Patterns}
  /\ last = [op |-> "none"]
  /\ UpdaterIdle
  /\ BarIdle
  /\ ExtraIdle

DoGetLatestTag ==
  /\ \E registry \in Registries :
       \E ret \in GetLatestTag(strat, registry) :
         last' = Call("GetLatestTag", registry, << >>, ret)
  /\ UNCHANGED << strat, updaterVars, barVars, extraVars >>

DoValidateTag ==
  /\ \E tag \in Tags :
       last' = Call("ValidateTag", tag, << >>, ValidateTag(strat, tag))
  /\ UNCHANGED << strat, updaterVars, barVars, extraVars >>

DoCompareVersions ==
  /\ \E version1, version2 \in Tags :
       last' = Call("CompareVersions", version1, version2,
                    CompareVersions(version1, version2))
  /\ UNCHANGED << strat, updaterVars, barVars, extraVars >>

DoGetDescription ==
  /\ last' = Call("GetDescription", << >>, << >>, GetDescription(strat))
  /\ UNCHANGED << strat, updaterVars, barVars, extraVars >>

DoGetConstraint ==
  /\ last' = Call("GetConstraint", << >>, << >>, GetConstraint(strat))
  /\ UNCHANGED << strat, updaterVars, barVars, extraVars >>

DoSetConstraint ==
  /\ \E pattern \in Patterns :
       LET r == SetConstraint(strat, pattern) IN
       /\ strat' = r.strat
       /\ last' = Call("SetConstraint", pattern, << >>, r.err)
  /\ UNCHANGED << updaterVars, barVars, extraVars >>

DoCleanVersionTag ==
  /\ \E tag \in Tags :
       last' = Call("cleanVersionTag", tag, << >>, cleanVersionTag(tag))
  /\ UNCHANGED << strat, updaterVars, barVars, extraVars >>

\* strings.Split(s, sep) for a one-character separator, strings.Contains
\* for one character, and the last element of a slice.
RECURSIVE Split(_, _)
Split(s, sep) ==
  LET d == IndexOf(s, sep) IN
  IF d = 0 THEN << s >>
  ELSE << SubSeq(s, 1, d - 1) >> \o Split(From(s, d), sep)
HasChar(s, c) == IndexOf(s, c) # 0
Last(parts) == parts[Len(parts)]

\* SemverStrategy.extractTag: what follows the last ":", "latest" without
\* one.
Latest == << "l", "a", "t", "e", "s", "t" >>
extractTag(image) ==
  IF HasChar(image, ":") THEN Last(Split(image, ":")) ELSE Latest

\* ShouldUpdate.
ShouldUpdate(currentImage, targetImage) ==
  CompareVersions(extractTag(currentImage), extractTag(targetImage)) < 0

\* GetVersionList on what the registry returned: the possible returns.  The
\* versions of the qualifying tags, largest first (equal versions in any
\* order), cut to limit when limit > 0.
GetVersionList(s, registry, limit) ==
  IF ~registry.ok THEN {[versions |-> << >>, err |-> "registry"]}
  ELSE
    LET valid == {t \in registry.tags :
                    parseVersion(t).ok /\ Check(s.constraint, parseVersion(t))}
        sorted == {o \in Orders(valid) :
                     \A k \in 1..(Len(o) - 1) :
                       Compare(parseVersion(o[k]), parseVersion(o[k + 1])) >= 0}
        cut(o) == IF limit > 0 /\ Len(o) > limit THEN SubSeq(o, 1, limit)
                  ELSE o
    IN {[versions |-> [k \in 1..Len(cut(o)) |-> parseVersion(cut(o)[k])],
         err |-> "nil"] : o \in sorted}

\* The image references and limits handed to ShouldUpdate and
\* GetVersionList.
App == << "a", "p", "p" >>
SemverImages == {App, App \o << ":" >> \o V100, App \o << ":", "v" >> \o V123}
Limits == {0, 1}
ListedTags == {V100, V200, << "v" >> \o V123, Latest}
ListedRegistries ==
  {[ok |-> FALSE, tags |-> {}]} \cup
  {[ok |-> TRUE, tags |-> T] : T \in SUBSET ListedTags}

DoShouldUpdate ==
  /\ \E currentImage, targetImage \in SemverImages :
       last' = Call("ShouldUpdate", currentImage, targetImage,
                    ShouldUpdate(currentImage, targetImage))
  /\ UNCHANGED << strat, updaterVars, barVars, extraVars >>

DoGetVersionList ==
  /\ \E registry \in ListedRegistries, limit \in Limits :
       \E ret \in GetVersionList(strat, registry, limit) :
         last' = Call("GetVersionList", registry, limit, ret)
  /\ UNCHANGED << strat, updaterVars, barVars, extraVars >>

SemverNext ==
  \/ DoShouldUpdate
  \/ DoGetVersionList
  \/ DoGetLatestTag
  \/ DoValidateTag
  \/ DoCompareVersions
  \/ DoGetDescription
  \/ DoGetConstraint
  \/ DoSetConstraint
  \/ DoCleanVersionTag

SemverSpec == SemverInit /\ [][SemverNext]_vars

\* --------------------------------------------------------------------- C15
ValidPattern(s) == NewConstraint(s.pattern).ok

\* The tags of T whose normalized form parses and satisfies the constraint.
Qualifying(s, T) ==
  {t \in T : parseVersion(t).ok /\ Check(s.constraint, parseVersion(t))}

\* C15: for a valid pattern and the tag set T the registry returned,
\* GetLatestTag returns a tag of T that is maximal, under semantic-version
\* precedence, among the tags of T whose normalized form parses and
\* satisfies the pattern, and it fails exactly when there is no such tag.
C15_LatestIsMaxQualifyingTag ==
  (last.op = "GetLatestTag" /\ last.a.ok /\ ValidPattern(last.recv)) =>
    LET Q == Qualifying(last.recv, last.a.tags) IN
    IF Q = {} THEN last.ret.err # "nil"
    ELSE /\ last.ret.err = "nil"
         /\ last.ret.tag \in
              {t \in Q : \A u \in Q :
                 Compare(parseVersion(u), parseVersion(t)) <= 0}

\* --------------------------------------------------------------------- C16
\* C16: the tag GetLatestTag returns is one of the registry's tag strings,
\* character for character.
C16_ReturnsARegistryTag ==
  (last.op = "GetLatestTag" /\ last.ret.err = "nil") =>
    last.ret.tag \in last.a.tags

\* --------------------------------------------------------------------- C17
\* What the call recorded in c may return on the strategy s.
Returns(s, c) ==
  IF c.op = "GetLatestTag" THEN GetLatestTag(s, c.a)
  ELSE IF c.op = "ValidateTag" THEN {ValidateTag(s, c.a)}
  ELSE IF c.op = "CompareVersions" THEN {CompareVersions(c.a, c.b)}
  ELSE IF c.op = "GetDescription" THEN {GetDescription(s)}
  ELSE IF c.op = "GetConstraint" THEN {GetConstraint(s)}
  ELSE IF c.op = "SetConstraint" THEN {SetConstraint(s, c.a).err}
  ELSE IF c.op = "ShouldUpdate" THEN {ShouldUpdate(c.a, c.b)}
  ELSE IF c.op = "GetVersionList" THEN GetVersionList(s, c.a, c.b)
  ELSE {cleanVersionTag(c.a)}

\* C17: a strategy constructed with a pattern that does not parse answers
\* every operation as a strategy constructed with "*" answers it.
C17_InvalidPatternActsAsStar ==
  (last.op # "none" /\ ~ValidPattern(last.recv)) =>
    last.ret \in Returns(NewSemverStrategy(Star), last)

\* --------------------------------------------------------------------- C18
Parses(tag) == parseVersion(tag).ok
NumParsed(tags) == Cardinality({k \in 1..Len(tags) : Parses(tags[k])})

\* Reflexivity, compare(a, b) = -compare(b, a), and agreement with version
\* precedence when both tags parse and with byte order otherwise, for the
\* call recorded in last.
CompareBasics ==
  LET a == last.a
      b == last.b
  IN /\ CompareVersions(a, a) = 0
     /\ CompareVersions(b, b) = 0
     /\ last.ret = -CompareVersions(b, a)
     /\ IF Parses(a) /\ Parses(b)
        THEN last.ret = Compare(parseVersion(a), parseVersion(b))
        ELSE last.ret = StringCompare(a, b)

\* a <= b and b <= c give a <= c.
TransitiveWith(c) ==
  (last.ret <= 0 /\ CompareVersions(last.b, c) <= 0) =>
    CompareVersions(last.a, c) <= 0

\* C18 as stated: CompareVersions is a total order, transitive over any set
\* of tags mixing parseable and unparseable ones.
C18_CompareIsTotalOrder ==
  last.op = "CompareVersions" =>
    /\ CompareBasics
    /\ \A c \in Tags : TransitiveWith(c)

\* C18: CompareVersions is reflexive, satisfies compare(a, b) =
\* -compare(b, a), agrees with version precedence when both tags parse and
\* with byte order otherwise, and is transitive on every three tags of
\* which all three parse or at most one parses.
C18_CompareOrderExceptMixed ==
  last.op = "CompareVersions" =>
    /\ CompareBasics
    /\ \A c \in Tags :
         NumParsed(<< last.a, last.b, c >>) # 2 => TransitiveWith(c)

\* A tag that parses was compared with a larger one that does not.
C18_Witness ==
  /\ last.op = "CompareVersions"
  /\ Parses(last.a) /\ ~Parses(last.b)
  /\ last.ret = -1

\* --------------------------------------------------------------------- C19
\* C19: normalizing a normalized tag changes nothing.
C19_NormalizerIdempotent ==
  last.op = "cleanVersionTag" => cleanVersionTag(last.ret) = last.ret

\* --------------------------------------------------------------------- C20
\* The length of the longest of the prefixes v, version, ver, release, rel
\* the tag starts with, case ignored; 0 if it starts with none.
WholePrefixLen(tag) ==
  LET lens == {Len(Prefixes[k]) : k \in
                 {j \in 1..Len(Prefixes) :
                    HasPrefix(ToLower(tag), Prefixes[j])}}
  IN IF lens = {} THEN 0 ELSE CHOOSE n \in lens : \A m \in lens : m <= n

\* C20: the normalizer removes the whole prefix (version, not only its v)
\* from a tag that starts with one of the prefixes and leaves every other
\* tag unchanged.
C20_WholePrefixRemoved ==
  last.op = "cleanVersionTag" =>
    last.ret = From(last.a, WholePrefixLen(last.a))

\* --------------------------------------------------------------------- C29
\* C29: the pattern and the constraint of a strategy change only through
\* SetConstraint: with a valid pattern it replaces both by that pattern and
\* its compiled constraint and returns nil; with an invalid one it returns an
\* error and leaves both as they were; every other operation leaves both as
\* they were.
C29_OnlySetConstraintChanges ==
  last.op # "none" =>
    IF last.op = "SetConstraint" /\ NewConstraint(last.a).ok
    THEN /\ last.ret = "nil"
         /\ strat = [pattern |-> last.a, constraint |-> NewConstraint(last.a)]
    ELSE /\ strat = last.recv
         /\ last.op = "SetConstraint" => last.ret # "nil"

\* SetConstraint was refused on a strategy that keeps its earlier, valid
\* pattern.
C29_Witness ==
  /\ last.op = "SetConstraint"
  /\ ~NewConstraint(last.a).ok
  /\ last.ret = "invalid"
  /\ strat.pattern = << "^", "1", ".", "0", ".", "0" >>

\* ======================================================================
\* The Latest strategy (internal/strategy/latest.go) and the registry client
\* (ImageManager, internal/docker/image.go).

\* strings.Join.
RECURSIVE Join(_, _)
Join(parts, sep) ==
  IF Len(parts) = 0 THEN << >>
  ELSE IF Len(parts) = 1 THEN parts[1]
  ELSE parts[1] \o sep \o Join(Tail(parts), sep)

\* strings.EqualFold on ASCII strings.
EqualFold(a, b) == ToLower(a) = ToLower(b)

\* LatestStrategy.isPort: one to five decimal digits.
isPort(str) ==
  /\ Len(str) >= 1
  /\ Len(str) <= 5
  /\ \A k \in 1..Len(str) : str[k] \in Digits

\* LatestStrategy.extractImageName: the reference without its tag or digest.
extractImageName(image) ==
  IF HasChar(image, "@") THEN Split(image, "@")[1]
  ELSE IF HasChar(image, ":")
  THEN LET parts == Split(image, ":") IN
       IF isPort(Last(parts)) THEN image
       ELSE Join(SubSeq(parts, 1, Len(parts) - 1), << ":" >>)
  ELSE image

\* LatestStrategy.extractTag and LatestStrategy.ShouldUpdate.
LatestExtractTag(image) ==
  IF HasChar(image, ":") THEN Last(Split(image, ":")) ELSE Latest
LatestShouldUpdate(currentImage, targetImage) ==
  \/ ~EqualFold(LatestExtractTag(currentImage), Latest)
  \/ ~EqualFold(LatestExtractTag(targetImage), Latest)

\* ImageManager.parseImageName.
DockerIO == << "d", "o", "c", "k", "e", "r", ".", "i", "o" >>
Library == << "l", "i", "b", "r", "a", "r", "y", "/" >>
parseImageName(imageName) ==
  LET name == IF HasChar(imageName, ":") THEN Split(imageName, ":")[1]
              ELSE imageName
      parts == Split(name, "/")
  IN IF Len(parts) = 1
     THEN [registry |-> DockerIO, repository |-> Library \o parts[1]]
     ELSE IF Len(parts) = 2 /\ ~HasChar(parts[1], ".")
     THEN [registry |-> DockerIO,
           repository |-> parts[1] \o << "/" >> \o parts[2]]
     ELSE [registry |-> parts[1],
           repository |-> Join(Tail(parts), << "/" >>)]

\* What httpClient.Get and reading the body can come to: a transport error,
\* or a response with a status and a body that cannot be read, is not JSON,
\* or lists the names in results.
StatusOK == 200
StatusCodes == {StatusOK, 203, 404, 500}
HubTags == {Latest, V100}
Responses ==
  {[kind |-> "transport", status |-> 0, body |-> "none", results |-> {}]}
  \cup [kind : {"response"}, status : StatusCodes,
        body : {"unreadable", "malformed"}, results : {{}}]
  \cup [kind : {"response"}, status : StatusCodes, body : {"json"},
        results : SUBSET HubTags]

\* ImageManager.getDockerHubTags on the outcome of its request.
getDockerHubTagsEmpty(response) ==
  IF response.kind = "transport" THEN [tags |-> {}, err |-> "request"]
  ELSE IF response.status # StatusOK THEN [tags |-> {}, err |-> "status"]
  ELSE IF response.body = "unreadable" THEN [tags |-> {}, err |-> "read"]
  ELSE IF response.body = "malformed" THEN [tags |-> {}, err |-> "parse"]
  ELSE [tags |-> response.results, err |-> "nil"]
getDockerHubTags(response) ==
  IF response.kind = "transport" THEN [tags |-> {}, err |-> "request"]
  ELSE IF response.status # StatusOK THEN [tags |-> {}, err |-> "status"]
  ELSE IF response.body = "unreadable" THEN [tags |-> {}, err |-> "read"]
  ELSE IF response.body = "malformed" THEN [tags |-> {}, err |-> "parse"]
  ELSE IF response.results = {} THEN [tags |-> {Latest}, err |-> "nil"]
  ELSE [tags |-> response.results, err |-> "nil"]

\* ImageManager.getRegistryTags: no request is made.
getRegistryTags == [tags |-> {Latest}, err |-> "nil"]

\* ImageManager.GetImageTags; hub[repository] is the outcome of the request
\* for that repository.
UsesDockerHub(registry) == registry = DockerIO \/ registry = << >>
GetImageTags(imageName, hub) ==
  LET split == parseImageName(imageName) IN
  IF UsesDockerHub(split.registry) THEN getDockerHubTags(hub[split.repository])
  ELSE getRegistryTags

\* ImageManager.ValidateImageExists.
ValidateImageExists(imageName, hub) ==
  LET r == GetImageTags(imageName, hub) IN
  IF r.err # "nil" THEN [exists |-> FALSE, err |-> r.err]
  ELSE [exists |-> Cardinality(r.tags) > 0, err |-> "nil"]

\* LatestStrategy.GetLatestTag.
LatestGetLatestTag(image, hub) ==
  LET r == ValidateImageExists(extractImageName(image), hub) IN
  IF r.err # "nil" THEN [tag |-> << >>, err |-> "validate"]
  ELSE IF ~r.exists THEN [tag |-> << >>, err |-> "missing"]
  ELSE [tag |-> Latest, err |-> "nil"]

\* The image references of the compose files.
Host == << "h" >>
DottedHost == << "r", ".", "i", "o" >>
Port == << ":", "5", "0", "0", "0" >>
Images ==
  LET tagged(n) == {n, n \o << ":" >> \o Latest}
  IN tagged(App)
     \cup tagged(<< "u", "/" >> \o App)
     \cup tagged(DottedHost \o << "/" >> \o App)
     \cup tagged(DottedHost \o << "/", "t", "/" >> \o App)
     \cup tagged(Host \o Port \o << "/" >> \o App)
     \cup tagged(DottedHost \o Port \o << "/", "t", "/" >> \o App)
     \cup tagged(<< "a", "/", "b", "/", "c" >>)
     \cup { App \o << ":", "L", "a", "t", "e", "s", "t" >>,
            App \o << ":" >> \o V100,
            App \o Port,
            App \o << "@", "s", ":", "1" >> }

\* The registries of the world: the repositories that exist (each with the
\* tag latest), at most MaxRepos of them, and whether the network is down.
\* Docker Hub answers a request for a repository it has with its tags and
\* any other with 404.
MaxRepos == 2
HubRepositories ==
  {[registry |-> DockerIO, repository |-> r] :
     r \in {Library \o App, Library \o Host, Library \o DottedHost,
            << "u", "/" >> \o App}}
OwnRepositories ==
  {[registry |-> DockerIO, repository |-> Host \o Port \o << "/" >> \o App],
   [registry |-> DottedHost \o Port, repository |-> << "t", "/" >> \o App],
   [registry |-> DottedHost, repository |-> App]}
Worlds ==
  {w \in SUBSET (HubRepositories \cup OwnRepositories) :
     Cardinality(w) <= MaxRepos}
\* The repositories a request can name.
Requestable ==
  {parseImageName(n).repository :
     n \in Images \cup {extractImageName(i) : i \in Images}}
HubResponse(world, down, repository) ==
  IF down
  THEN [kind |-> "transport", status |-> 0, body |-> "none", results |-> {}]
  ELSE IF [registry |-> DockerIO, repository |-> repository] \in world
  THEN [kind |-> "response", status |-> StatusOK, body |-> "json",
        results |-> {Latest}]
  ELSE [kind |-> "response", status |-> 404, body |-> "json",
        results |-> {}]

\* One call of one of the four functions, its arguments drawn at the start.
Pending(fn, a, b) == [op |-> "pending", fn |-> fn, a |-> a, b |-> b]
CallReturned(ret) ==
  [op |-> last.fn, a |-> last.a, b |-> last.b, ret |-> ret]
IsPending(fn) == last.op = "pending" /\ last.fn = fn

ImageInit ==
  /\ strat = [pattern |-> << >>, constraint |-> << >>]
  /\ \/ \E image \in Images, world \in Worlds, down \in BOOLEAN :
          last = Pending("GetLatestTag", image,
                         [world |-> world, down |-> down])
     \/ \E currentImage, targetImage \in Images :
          last = Pending("ShouldUpdate", currentImage, targetImage)
     \/ \E imageName \in Images :
          last = Pending("parseImageName", imageName, << >>)
     \/ \E imageName \in Images, response \in Responses :
          last = Pending("GetImageTags", imageName, response)
  /\ UpdaterIdle
  /\ BarIdle
  /\ ExtraIdle

DoLatestGetLatestTag ==
  /\ IsPending("GetLatestTag")
  /\ LET hub == [repository \in Requestable |->
                   HubResponse(last.b.world, last.b.down, repository)]
     IN last' = CallReturned(LatestGetLatestTag(last.a, hub))
  /\ UNCHANGED << strat, updaterVars, barVars, extraVars >>

DoLatestShouldUpdate ==
  /\ IsPending("ShouldUpdate")
  /\ last' = CallReturned(LatestShouldUpdate(last.a, last.b))
  /\ UNCHANGED << strat, updaterVars, barVars, extraVars >>

DoParseImageName ==
  /\ IsPending("parseImageName")
  /\ last' = CallReturned(parseImageName(last.a))
  /\ UNCHANGED << strat, updaterVars, barVars, extraVars >>

DoGetImageTags ==
  /\ IsPending("GetImageTags")
  /\ LET hub == [repository \in Requestable |-> last.b]
     IN last' = CallReturned(GetImageTags(last.a, hub))
  /\ UNCHANGED << strat, updaterVars, barVars, extraVars >>

ImageNext ==
  \/ DoLatestGetLatestTag
  \/ DoLatestShouldUpdate
  \/ DoParseImageName
  \/ DoGetImageTags

ImageSpec == ImageInit /\ [][ImageNext]_vars

\* --------------------------------------------------------------------- C21
\* The reading of a reference the claims use: the tag is what follows the
\* last ":" when no "/" comes after it, the name is the reference without
\* tag and digest, and the name splits into registry and repository by the
\* three cases of C23.
HasTag(image) == HasChar(image, ":") /\ ~HasChar(Last(Split(image, ":")), "/")
TagOf(image) == IF HasTag(image) THEN Last(Split(image, ":")) ELSE Latest
NameOf(image) ==
  IF HasChar(image, "@") THEN Split(image, "@")[1]
  ELSE IF HasTag(image)
  THEN SubSeq(image, 1, Len(image) - Len(TagOf(image)) - 1)
  ELSE image
SplitOf(name) ==
  LET parts == Split(name, "/") IN
  IF Len(parts) = 1
  THEN [registry |-> DockerIO, repository |-> Library \o name]
  ELSE IF Len(parts) = 2 /\ ~HasChar(parts[1], ".")
  THEN [registry |-> DockerIO, repository |-> name]
  ELSE [registry |-> parts[1],
        repository |-> SubSeq(name, Len(parts[1]) + 2, Len(name))]

\* C21: GetLatestTag of the Latest strategy returns exactly "latest" and no
\* error for every image whose repository has a tag that can be resolved,
\* and an error and no tag when the query of the registry fails.
C21_LatestWhenRepositoryHasTag ==
  last.op = "GetLatestTag" =>
    LET repo == SplitOf(NameOf(last.a))
        resolvable == ~last.b.down /\ repo \in last.b.world
        queryFails == /\ UsesDockerHub(repo.registry)
                      /\ last.b.down \/ repo \notin last.b.world
    IN /\ resolvable => last.ret = [tag |-> Latest, err |-> "nil"]
       /\ queryFails => last.ret.err # "nil"
       /\ last.ret.err # "nil" => last.ret.tag = << >>

\* --------------------------------------------------------------------- C22
\* C22: ShouldUpdate of the Latest strategy is false exactly when the tag of
\* both references is latest in any letter case, a reference without a tag
\* (a registry host with a port included) counting as latest; otherwise it
\* is true.
C22_FalseIffBothLatest ==
  (/\ last.op = "ShouldUpdate"
   /\ ~HasChar(last.a, "@")
   /\ ~HasChar(last.b, "@")) =>
    (last.ret = FALSE <=> /\ EqualFold(TagOf(last.a), Latest)
                          /\ EqualFold(TagOf(last.b), Latest))

\* --------------------------------------------------------------------- C23
\* C23: the registry client splits every image name into registry and
\* repository by the three cases: no "/", one "/" after a segment without
\* ".", and every other name, whose first segment (port included) is the
\* registry host.
C23_SplitsByTheThreeCases ==
  (last.op = "parseImageName" /\ ~HasChar(last.a, "@")) =>
    last.ret = SplitOf(NameOf(last.a))

\* --------------------------------------------------------------------- C24
\* The request GetImageTags made for the name, if it made one.
Requested(imageName) == UsesDockerHub(parseImageName(imageName).registry)
Listed(response) == response.kind = "response" /\ response.body = "json"
Status2xx(response) ==
  response.kind = "response" /\ response.status \in 200..299

MaxLines == 2
Streams == {"stdout", "stderr"}

\* A line is the sequence of its fields (strings.Fields).
Lines ==
  { << "Pulling", "web..." >>, << "Pulling" >>, << "web", "Pulling" >>,
    << "Downloaded" >>, << "Error" >>, << "error" >>, << "done" >> }
Mentions(line, word) == \E k \in 1..Len(line) : line[k] = word

\* strings.TrimSuffix(field, "...").
TrimDots(field) == IF field = "web..." THEN "web" ELSE field

\* The labels SetCurrentOperation is called with.
PullLabel == [kind |-> "pulling", name |-> ""]
RecreateLabel == [kind |-> "recreating", name |-> ""]
NoLabel == [kind |-> "none", name |-> ""]

\* What the reader of a stream passes to SetCurrentOperation for a line it
\* did not skip; NoLabel when it calls nothing.
LabelOf(stream, line) ==
  IF stream = "stdout"
  THEN IF Mentions(line, "Pulling")
       THEN IF Len(line) > 1
            THEN [kind |-> "service", name |-> TrimDots(line[2])]
            ELSE NoLabel
       ELSE IF Mentions(line, "Downloaded")
       THEN [kind |-> "downloaded", name |-> ""]
       ELSE NoLabel
  ELSE IF Mentions(line, "Error") \/ Mentions(line, "error")
       THEN [kind |-> "error", name |-> ""]
       ELSE NoLabel

\* Before the pull label is set.  throttle tells the variant of
\* monitorPullProgress: with the 200 ms update interval or without.
MonitorInit ==
  /\ mon \in [pc : {"start"}, display : {[label |-> NoLabel, by |-> "none"]},
              proc : {"none"}, written : {0},
              pipe : {[r \in Streams |-> << >>]},
              buf : {[r \in Streams |-> << >>]},
              closed : {FALSE},
              rpc : {[r \in Streams |-> "unstarted"]},
              line : {[r \in Streams |-> << >>]},
              throttle : BOOLEAN, recent : {FALSE},
              handled : {[stream |-> "none", line |-> << >>,
                          label |-> NoLabel]},
              lateWrite : {FALSE}]
  /\ client = [pc |-> "idle"]
  /\ conf = [pc |-> "idle"]
  /\ UpdaterIdle
  /\ BarIdle
  /\ SemverIdle

MonitorUnchanged == UNCHANGED << client, conf, updaterVars, barVars, semverVars >>

\* updateComposeFileWithProgress sets the pull label;
\* executeDockerComposePullWithProgress starts the subprocess and the
\* monitor goroutine.
StartPullWithProgress ==
  /\ mon.pc = "start"
  /\ mon' = [mon EXCEPT !.pc = "waiting", !.proc = "running",
                        !.display = [label |-> PullLabel,
                                     by |-> "orchestrator"]]
  /\ MonitorUnchanged

\* monitorPullProgress: lastUpdate := time.Now() and the two readers start.
SpawnReaders ==
  /\ mon.pc # "start"
  /\ \A r \in Streams : mon.rpc[r] = "unstarted"
  /\ mon' = [mon EXCEPT !.rpc = [r \in Streams |-> "scan"],
                        !.recent = mon.throttle]
  /\ MonitorUnchanged

\* The subprocess writes a line on one of its streams.
WriteLine ==
  /\ mon.proc = "running"
  /\ mon.written < MaxLines
  /\ \E r \in Streams, line \in Lines :
       mon' = [mon EXCEPT !.pipe[r] = Append(@, line),
                          !.written = @ + 1]
  /\ MonitorUnchanged

\* The subprocess exits.
ProcExit ==
  /\ mon.proc = "running"
  /\ mon' = [mon EXCEPT !.proc = "exited"]
  /\ MonitorUnchanged

\* cmd.Wait returns once the subprocess has exited, and closes both pipes.
WaitReturns ==
  /\ mon.pc = "waiting"
  /\ mon.proc = "exited"
  /\ mon' = [mon EXCEPT !.pc = "report", !.closed = TRUE,
                        !.pipe = [r \in Streams |-> << >>]]
  /\ MonitorUnchanged

\* The results of the phase are built and returned.
ReportPull ==
  /\ mon.pc = "report"
  /\ mon' = [mon EXCEPT !.pc = "reported"]
  /\ MonitorUnchanged

\* updateComposeFileWithProgress sets the label of the recreate phase.
SetRecreateLabel ==
  /\ mon.pc = "reported"
  /\ mon' = [mon EXCEPT !.pc = "recreate",
                        !.display = [label |-> RecreateLabel,
                                     by |-> "orchestrator"]]
  /\ MonitorUnchanged

\* 200 ms have passed since lastUpdate.
IntervalPasses ==
  /\ mon.recent
  /\ mon' = [mon EXCEPT !.recent = FALSE]
  /\ MonitorUnchanged

\* scanner.Scan of reader r: the next buffered line, else what the pipe
\* holds is read into the buffer, else false at end of file or on the closed
\* pipe (the reader returns), else it blocks.
Scan(r) ==
  /\ mon.rpc[r] = "scan"
  /\ IF mon.buf[r] # << >>
     THEN mon' = [mon EXCEPT !.line[r] = Head(mon.buf[r]),
                             !.buf[r] = Tail(mon.buf[r]),
                             !.rpc[r] = "handle"]
     ELSE IF mon.pipe[r] # << >>
     THEN mon' = [mon EXCEPT !.line[r] = Head(mon.pipe[r]),
                             !.buf[r] = Tail(mon.pipe[r]),
                             !.pipe[r] = << >>,
                             !.rpc[r] = "handle"]
     ELSE /\ mon.closed \/ mon.proc = "exited"
          /\ mon' = [mon EXCEPT !.rpc[r] = "done"]
  /\ MonitorUnchanged

\* The body of reader r's loop for the line it holds.
Handle(r) ==
  /\ mon.rpc[r] = "handle"
  /\ LET label == IF mon.recent THEN NoLabel ELSE LabelOf(r, mon.line[r])
         shown == label # NoLabel
     IN mon' = [mon EXCEPT
                  !.rpc[r] = "scan",
                  !.line[r] = << >>,
                  !.display = IF shown THEN [label |-> label, by |-> r]
                              ELSE @,
                  !.recent = IF shown THEN mon.throttle ELSE @,
                  !.handled = [stream |-> r, line |-> mon.line[r],
                               label |-> label],
                  !.lateWrite = @ \/ (shown /\ mon.pc \in {"reported",
                                                            "recreate"})]
  /\ MonitorUnchanged

MonitorNext ==
  \/ StartPullWithProgress
  \/ SpawnReaders
  \/ WriteLine
  \/ ProcExit
  \/ WaitReturns
  \/ ReportPull
  \/ SetRecreateLabel
  \/ IntervalPasses
  \/ \E r \in Streams : Scan(r)
  \/ \E r \in Streams : Handle(r)

MonitorSpec == MonitorInit /\ [][MonitorNext]_vars

\* --------------------------------------------------------------------- C25
\* C25: once the pull phase has reported, none of its readers writes the
\* display: no label of a reader is applied after the results were returned
\* or after the recreate label was set.
C25_NoStaleLabel ==
  /\ ~mon.lateWrite
  /\ mon.pc = "recreate" => mon.display.by = "orchestrator"

\* --------------------------------------------------------------------- C26
\* C26: both readers have terminated when the pull phase reports its
\* results.
C26_ReadersJoinedBeforeReport ==
  mon.pc \in {"reported", "recreate"} =>
    \A r \in Streams : mon.rpc[r] = "done"

\* --------------------------------------------------------------------- C27
\* The label the claim gives a line, whichever stream carries it.
Names(label, line) ==
  /\ label.kind = "service"
  /\ Mentions(line, "web") \/ Mentions(line, "web...") => label.name = "web"

\* C27: every line a reader has taken is classified the same way on either
\* stream and its label is shown: a line mentioning Pulling gives a progress
\* label naming the service, a line mentioning Downloaded the completion
\* label, a line mentioning Error or error the error label.
C27_EveryLineGetsItsLabel ==
  mon.handled.stream # "none" =>
    LET line == mon.handled.line
        label == mon.handled.label
    IN /\ Mentions(line, "Pulling") => Names(label, line)
       /\ Mentions(line, "Downloaded") => label.kind = "downloaded"
       /\ (Mentions(line, "Error") \/ Mentions(line, "error")) =>
            label.kind = "error"

\* ======================================================================
\* The Docker client wrapper (Client, internal/docker/image.go).

\* A client serves at most MaxOps calls.
MaxOps == 3

\* The operations that go through ensureConnected, and the daemon API call
\* each one issues.
ClientOps ==
  {"ListImages", "CleanupUnusedImages", "RemoveImage", "PullImage",
   "GetImageInfo", "ListContainers", "GetVersion"}

\* The client after NewClient (cli nil) or NewClientWithConfig (cli made,
\* no ping), with the daemon up or down and the environment's client options
\* usable or not.
ClientInit ==
  /\ client \in [pc : {"ready"}, cli : {"nil", "set"}, daemon : {"up", "down"},
                 env : {"ok", "bad"}, calls : {0}, pinged : {FALSE},
                 pingFailed : {FALSE},
                 last : {[op |-> "none", ret |-> "nil", api |-> FALSE,
                          pinged |-> FALSE, pingFailed |-> FALSE]}]
  /\ mon = [pc |-> "idle"]
  /\ conf = [pc |-> "idle"]
  /\ UpdaterIdle
  /\ BarIdle
  /\ SemverIdle

ClientUnchanged == UNCHANGED << mon, conf, updaterVars, barVars, semverVars >>

\* Client.Connect on the client c: the client afterwards and the error.
\* The cli field is assigned before the ping.
Connect(c) ==
  IF c.cli = "nil" /\ c.env = "bad"
  THEN [client |-> c, err |-> "create"]
  ELSE IF c.daemon = "down"
  THEN [client |-> [c EXCEPT !.cli = "set", !.pingFailed = TRUE],
        err |-> "ping"]
  ELSE [client |-> [c EXCEPT !.cli = "set", !.pinged = TRUE], err |-> "nil"]

\* Client.ensureConnected.
ensureConnected(c) ==
  IF c.cli = "nil" THEN Connect(c) ELSE [client |-> c, err |-> "nil"]

\* An explicit Connect.
DoConnect ==
  /\ client.pc = "ready"
  /\ client.calls < MaxOps
  /\ LET r == Connect(client) IN
     client' = [r.client EXCEPT
                  !.calls = @ + 1,
                  !.last = [op |-> "Connect", ret |-> r.err, api |-> FALSE,
                            pinged |-> r.client.pinged,
                            pingFailed |-> client.pingFailed]]
  /\ ClientUnchanged

\* One of the operations: ensureConnected, then the API call, which fails
\* when the daemon is down.
DoOperation ==
  /\ client.pc = "ready"
  /\ client.calls < MaxOps
  /\ \E op \in ClientOps :
       LET r == ensureConnected(client)
           api == r.err = "nil"
           ret == IF ~api THEN r.err
                  ELSE IF client.daemon = "down" THEN "api"
                  ELSE "nil"
       IN client' = [r.client EXCEPT
                       !.calls = @ + 1,
                       !.last = [op |-> op, ret |-> ret, api |-> api,
                                 pinged |-> r.client.pinged,
                                 pingFailed |-> client.pingFailed]]
  /\ ClientUnchanged

\* The daemon stops or starts.
DaemonChanges ==
  /\ client.pc = "ready"
  /\ client' = [client EXCEPT
                  !.daemon = IF @ = "up" THEN "down" ELSE "up"]
  /\ ClientUnchanged

ClientNext ==
  \/ DoConnect
  \/ DoOperation
  \/ DaemonChanges

ClientSpec == ClientInit /\ [][ClientNext]_vars

\* --------------------------------------------------------------------- C28
\* C28: no operation issues a daemon API call on a client on which no ping
\* has succeeded, and after a failed ping every later operation on that
\* client fails with the connection error.
C28_NoApiCallWithoutPing ==
  /\ client.last.api => client.last.pinged
  /\ (client.last.op \in ClientOps /\ client.last.pingFailed) =>
       client.last.ret = "ping"

\* ======================================================================
\* The configuration loader (internal/config/config.go): the package
\* variables configFile and config, LoadConfig, GetConfig, ReloadConfig.

\* At most MaxCalls calls are made.
MaxCalls == 3

\* A configuration, as far as validateConfig reads it: the number of compose
\* paths, the tag strategy and the timeout in seconds.
DefaultTimeout == 300
NilConfig == [paths |-> 0, strategy |-> "", timeout |-> 0]
getDefaultConfig ==
  [paths |-> 2, strategy |-> "latest", timeout |-> DefaultTimeout]
FileConfigs ==
  [paths : {0, 1}, strategy : {"", "latest", "foo"},
   timeout : {0, DefaultTimeout}]

\* A file: absent, unreadable (not YAML), or the YAML of a configuration.
Files ==
  {[kind |-> "absent", cfg |-> NilConfig],
   [kind |-> "unreadable", cfg |-> NilConfig]}
  \cup [kind : {"yaml"}, cfg : FileConfigs]

\* loadConfigFromFile.
loadConfigFromFile(file) ==
  IF file.kind = "yaml" THEN [cfg |-> file.cfg, err |-> "nil"]
  ELSE [cfg |-> NilConfig, err |-> "read"]

\* mergeConfigs: the user's values where it has them.
mergeConfigs(defaultCfg, userCfg) ==
  [paths |-> IF userCfg.paths > 0 THEN userCfg.paths ELSE defaultCfg.paths,
   strategy |-> IF userCfg.strategy # "" THEN userCfg.strategy
                ELSE defaultCfg.strategy,
   timeout |-> IF userCfg.timeout > 0 THEN userCfg.timeout
               ELSE defaultCfg.timeout]

\* validateConfig: the error, and the configuration with its timeout
\* defaulted.
validateConfig(cfg) ==
  IF cfg.paths = 0 THEN [cfg |-> cfg, err |-> "paths"]
  ELSE IF cfg.strategy \notin {"latest", "semver"}
  THEN [cfg |-> cfg, err |-> "strategy"]
  ELSE [cfg |-> IF cfg.timeout <= 0
                THEN [cfg EXCEPT !.timeout = DefaultTimeout]
                ELSE cfg,
        err |-> "nil"]

\* The package state before the first call: config nil, configFile empty or
\* naming a user file, the default file and the user file as they are on
\* disk, the configuration directory writable or not.
ConfigInit ==
  /\ conf \in [pc : {"ready"}, set : {FALSE}, config : {NilConfig},
               configFile : {"", "user"}, defaultFile : Files,
               userFile : Files, writable : BOOLEAN, calls : {0},
               last : {[op |-> "none", err |-> "nil", set |-> FALSE,
                        cfg |-> NilConfig]}]
  /\ conf.configFile = "" => conf.userFile.kind = "absent"
  /\ mon = [pc |-> "idle"]
  /\ client = [pc |-> "idle"]
  /\ UpdaterIdle
  /\ BarIdle
  /\ SemverIdle

ConfigUnchanged == UNCHANGED << mon, client, updaterVars, barVars, semverVars >>

\* The end of LoadConfig: validateConfig on the package variable.
Validated(c) ==
  LET v == validateConfig(c.config) IN
  IF v.err # "nil"
  THEN [state |-> c, set |-> FALSE, cfg |-> NilConfig, err |-> "validate"]
  ELSE [state |-> [c EXCEPT !.config = v.cfg], set |-> TRUE, cfg |-> v.cfg,
        err |-> "nil"]

\* SaveConfigToDefault, then validation.
SavedAndValidated(c) ==
  IF ~c.writable
  THEN [state |-> c, set |-> FALSE, cfg |-> NilConfig, err |-> "save"]
  ELSE Validated([c EXCEPT !.defaultFile = [kind |-> "yaml",
                                            cfg |-> c.config]])

\* LoadConfig on the package state c: the state afterwards, the
\* configuration returned (set is FALSE for nil) and the error.
LoadConfig(c) ==
  IF c.set
  THEN [state |-> c, set |-> TRUE, cfg |-> c.config, err |-> "nil"]
  ELSE IF c.configFile # ""
  THEN LET u == loadConfigFromFile(c.userFile) IN
       IF u.err # "nil"
       THEN [state |-> c, set |-> FALSE, cfg |-> NilConfig, err |-> "load"]
       ELSE SavedAndValidated(
              [c EXCEPT !.set = TRUE,
                        !.config = mergeConfigs(getDefaultConfig, u.cfg)])
  ELSE IF c.defaultFile.kind # "absent"
  THEN LET d == loadConfigFromFile(c.defaultFile) IN
       IF d.err # "nil"
       THEN [state |-> [c EXCEPT !.set = FALSE, !.config = NilConfig],
             set |-> FALSE, cfg |-> NilConfig, err |-> "load"]
       ELSE Validated([c EXCEPT !.set = TRUE, !.config = d.cfg])
  ELSE SavedAndValidated([c EXCEPT !.set = TRUE,
                                   !.config = getDefaultConfig])

Called(c, op, r) ==
  [c EXCEPT !.calls = conf.calls + 1,
            !.last = [op |-> op, err |-> r.err, set |-> r.set,
                      cfg |-> r.cfg]]

DoLoadConfig ==
  /\ conf.pc = "ready"
  /\ conf.calls < MaxCalls
  /\ LET r == LoadConfig(conf) IN conf' = Called(r.state, "LoadConfig", r)
  /\ ConfigUnchanged

\* GetConfig: config, _ = LoadConfig() when config is nil.
DoGetConfig ==
  /\ conf.pc = "ready"
  /\ conf.calls < MaxCalls
  /\ IF conf.set
     THEN conf' = Called(conf, "GetConfig",
                         [set |-> TRUE, cfg |-> conf.config, err |-> "nil"])
     ELSE LET r == LoadConfig(conf) IN
          conf' = Called([r.state EXCEPT !.set = r.set, !.config = r.cfg],
                         "GetConfig",
                         [set |-> r.set, cfg |-> r.cfg, err |-> "nil"])
  /\ ConfigUnchanged

\* ReloadConfig: config = nil, then LoadConfig.
DoReloadConfig ==
  /\ conf.pc = "ready"
  /\ conf.calls < MaxCalls
  /\ LET r == LoadConfig([conf EXCEPT !.set = FALSE, !.config = NilConfig])
     IN conf' = Called(r.state, "ReloadConfig",
                       [set |-> FALSE, cfg |-> NilConfig, err |-> r.err])
  /\ ConfigUnchanged

ConfigNext ==
  \/ DoLoadConfig
  \/ DoGetConfig
  \/ DoReloadConfig

ConfigSpec == ConfigInit /\ [][ConfigNext]_vars

\* --------------------------------------------------------------------- C30
\* C30: LoadConfig returns a nil error only together with a configuration
\* that passes validateConfig.
C30_NilErrorOnlyWithValidConfig ==
  (conf.last.op = "LoadConfig" /\ conf.last.err = "nil") =>
    /\ conf.last.set
    /\ validateConfig(conf.last.cfg).err = "nil"

====
